---- MODULE Spec2Model ----
(***************************************************************************)
(* EZVIZ smart plug platform (ezviz/switch.py): the device data parser,    *)
(* the device directory, the EZPlug entity and setup_platform.             *)
(*                                                                         *)
(* Python values are modelled as follows.                                  *)
(*   - A dict is a function whose DOMAIN is its key set; `k in d` is       *)
(*     k \in DOMAIN d and d[k] on a missing key raises KeyError.           *)
(*   - None is the empty tuple and any other scalar v is <<v>>, so that a  *)
(*     field that may be None compares with every value.                   *)
(*   - A call's outcome is [exc, val]: exc = "None" when it returns val,   *)
(*     otherwise the name of the exception that propagates.                *)
(***************************************************************************)
EXTENDS Integers, Sequences, FiniteSets, TLC

VARIABLES
    entities,       \* the EZPlug objects handed to add_entities, in order
    last,           \* the host's most recent call into the platform
    plug,           \* SpecParse: the raw device record given to parse_plug_data
    parsed,         \* SpecParse: the outcome of parse_plug_data(plug)
    all_plugs,      \* SpecFind: the mapping get_device_infos returns
    target_serial,  \* SpecFind: the serial looked up
    found           \* SpecFind: the outcome of get_plug

vars == <<entities, last, plug, parsed, all_plugs, target_serial, found>>

-----------------------------------------------------------------------------
(* Bounds *)

\* most devices in one get_device_infos answer
MaxDevices == 2
\* most entries in one SWITCH list
MaxSwitchEntries == 2

\* the capability type of the plug's on/off switch
SwitchType == 14
\* some other capability type a SWITCH list may hold
OtherType == SwitchType + 1

-----------------------------------------------------------------------------
(* Python values *)

None == <<>>
Some(v) == <<v>>

EmptyDict == <<>>

Returns(v) == [exc |-> "None", val |-> v]
Raises(e) == [exc |-> e, val |-> None]
NotCalled == [exc |-> "NotCalled", val |-> None]

Opt(k, S) == {EmptyDict} \cup {k :> v : v \in S}

SeqsUpTo(S, n) == UNION {[1..k -> S] : k \in 0..n}

-----------------------------------------------------------------------------
(* Raw device records, as get_device_infos may return them *)

Serials == {"S1", "S2"}
Names == {"Plug A", "Plug B"}

DeviceInfosVals == {[deviceSerial |-> s] : s \in Serials}

ResourceInfosVals ==
    {[resourceName |-> n, deviceSerial |-> s] : n \in Names, s \in Serials}

SwitchEntries == [type : {SwitchType, OtherType}, enable : {0, 1}]

SwitchVals == SeqsUpTo(SwitchEntries, MaxSwitchEntries)

StatusVals ==
    {EmptyDict, "optionals" :> EmptyDict,
     "optionals" :> ("OnlineStatus" :> 1)}

\* the records given to the parser: any subset of the groups, the switch lists
\* (drawn from `switches`) under the key parse_plug_data tests (SWITCH) and the
\* key it reads (SWTITCH)
RawDeviceRecords(switches) ==
    {di @@ ri @@ sw @@ swt @@ st :
        di \in {"deviceInfos" :> v : v \in DeviceInfosVals},
        ri \in Opt("resourceInfos",
                   ResourceInfosVals \cup {[deviceSerial |-> s] : s \in Serials}),
        sw \in Opt("SWITCH", switches),
        swt \in Opt("SWTITCH", switches),
        st \in Opt("STATUS", StatusVals)}

-----------------------------------------------------------------------------
(* parse_plug_data *)

Has(d, k) == k \in DOMAIN d

\* [data["enable"] for data in switch if data["type"] == 14]
RECURSIVE switch_states(_)
switch_states(switch) ==
    IF switch = <<>> THEN <<>>
    ELSE IF Head(switch).type = SwitchType
         THEN <<Head(switch).enable>> \o switch_states(Tail(switch))
         ELSE switch_states(Tail(switch))

\* lines 61-64, when plug["SWTITCH"] does not raise
parse_state(p) ==
    IF Has(p, "SWITCH")
    THEN IF switch_states(p["SWTITCH"]) # <<>>
         THEN Some(Head(switch_states(p["SWTITCH"])))
         ELSE None
    ELSE None

\* lines 66-69
parse_online_status(p) ==
    IF Has(p, "STATUS")
    THEN IF Has(p["STATUS"], "optionals")
         THEN IF Has(p["STATUS"]["optionals"], "OnlineStatus")
              THEN Some(p["STATUS"]["optionals"]["OnlineStatus"])
              ELSE None
         ELSE None
    ELSE None

parse_plug_data(p) ==
    IF Has(p, "resourceInfos")
       /\ ~({"resourceName", "deviceSerial"} \subseteq DOMAIN p["resourceInfos"])
    THEN Raises("KeyError")
    ELSE IF Has(p, "SWITCH") /\ ~Has(p, "SWTITCH")
    THEN Raises("KeyError")
    ELSE Returns(<<
            IF Has(p, "resourceInfos")
                THEN Some(p["resourceInfos"]["resourceName"]) ELSE None,
            IF Has(p, "resourceInfos")
                THEN Some(p["resourceInfos"]["deviceSerial"]) ELSE None,
            parse_state(p),
            parse_online_status(p) >>)

-----------------------------------------------------------------------------
(* The parser on its own *)

InitParse ==
    /\ plug \in RawDeviceRecords(SwitchVals)
    /\ parsed = NotCalled
    /\ entities = <<>>
    /\ last = NotCalled
    /\ all_plugs = <<>>
    /\ target_serial = None
    /\ found = NotCalled

Parse ==
    /\ parsed = NotCalled
    /\ parsed' = parse_plug_data(plug)
    /\ UNCHANGED <<entities, last, plug, all_plugs, target_serial, found>>

NextParse == Parse

SpecParse == InitParse /\ [][NextParse]_vars

\* C5: parse_plug_data never raises, whatever groups the record holds (each
\* group it holds being complete), and every field whose group is missing is
\* None; a record without resourceInfos gives name = None and serial = None.
GroupsComplete(p) ==
    Has(p, "resourceInfos") =>
        {"resourceName", "deviceSerial"} \subseteq DOMAIN p["resourceInfos"]

C5_ParseNeverRaises ==
    (parsed # NotCalled /\ GroupsComplete(plug)) =>
        /\ parsed.exc = "None"
        /\ ~Has(plug, "resourceInfos") =>
                (parsed.val[1] = None /\ parsed.val[2] = None)
        /\ ~Has(plug, "SWITCH") => parsed.val[3] = None
        /\ ~Has(plug, "STATUS") => parsed.val[4] = None

\* C6: a record whose SWITCH group is present and holds no entry of type 14
\* (an empty group included) parses normally, with state = None.
C6_NoType14StateAbsent ==
    (parsed # NotCalled /\ GroupsComplete(plug) /\ Has(plug, "SWITCH")
        /\ switch_states(plug["SWITCH"]) = <<>>) =>
        (parsed.exc = "None" /\ parsed.val[3] = None)

-----------------------------------------------------------------------------
(* get_plugs, get_plug, get_plug_data *)

\* the mapping deviceId -> record of get_device_infos, in iteration order
DeviceInfos(recs) == [i \in 1..Len(recs) |-> [key |-> i, value |-> recs[i]]]

\* lines 30-34: the mapping's values, in iteration order (the client call is
\* recorded by the caller)
get_plugs(devs) == [i \in 1..Len(devs) |-> devs[i].value]

HasDeviceSerial(dev) ==
    Has(dev, "deviceInfos") /\ Has(dev["deviceInfos"], "deviceSerial")

RECURSIVE scan_plugs(_, _)
scan_plugs(plugs, target) ==
    IF plugs = <<>> THEN Raises("Exception")
    ELSE IF ~HasDeviceSerial(Head(plugs)) THEN Raises("KeyError")
    ELSE IF Some(Head(plugs)["deviceInfos"]["deviceSerial"]) = target
         THEN Returns(Head(plugs))
         ELSE scan_plugs(Tail(plugs), target)

RECURSIVE scan_plugs_BugLastMatch(_, _)
scan_plugs_BugLastMatch(plugs, target) ==
    IF plugs = <<>> THEN Raises("Exception")
    ELSE IF ~HasDeviceSerial(Head(plugs)) THEN Raises("KeyError")
    ELSE IF Some(Head(plugs)["deviceInfos"]["deviceSerial"]) = target
            /\ scan_plugs_BugLastMatch(Tail(plugs), target).exc # "None"
         THEN Returns(Head(plugs))
         ELSE scan_plugs_BugLastMatch(Tail(plugs), target)

get_plug_BugLastMatch(devs, target) ==
    scan_plugs_BugLastMatch(get_plugs(devs), target)

get_plug(devs, target) == scan_plugs(get_plugs(devs), target)

\* line 76 on the outcome of line 75: an exception of get_plug propagates
parse_found(plug_) ==
    IF plug_.exc # "None" THEN plug_ ELSE parse_plug_data(plug_.val)

get_plug_data(devs, target) == parse_found(get_plug(devs, target))

-----------------------------------------------------------------------------
(* The directory on its own *)

FindRecords ==
    {di @@ ri :
        di \in Opt("deviceInfos", DeviceInfosVals \cup {EmptyDict}),
        ri \in Opt("resourceInfos", ResourceInfosVals)}

OptSerials == {None} \cup {Some(s) : s \in Serials}

InitFind ==
    /\ all_plugs \in {DeviceInfos(recs) : recs \in SeqsUpTo(FindRecords, MaxDevices)}
    /\ target_serial \in OptSerials
    /\ found = NotCalled
    /\ entities = <<>>
    /\ last = NotCalled
    /\ plug = EmptyDict
    /\ parsed = NotCalled

Find ==
    /\ found = NotCalled
    /\ found' = get_plug(all_plugs, target_serial)
    /\ UNCHANGED <<entities, last, plug, parsed, all_plugs, target_serial>>

NextFind == Find

SpecFind == InitFind /\ [][NextFind]_vars

Min(S) == CHOOSE m \in S : \A n \in S : m <= n

\* positions whose deviceInfos serial is the target
DeviceMatches ==
    {i \in 1..Len(all_plugs) :
        /\ HasDeviceSerial(all_plugs[i].value)
        /\ Some(all_plugs[i].value["deviceInfos"]["deviceSerial"]) = target_serial}

\* positions with no deviceInfos serial to compare
DeviceKeyless ==
    {i \in 1..Len(all_plugs) : ~HasDeviceSerial(all_plugs[i].value)}

\* positions whose resourceInfos serial is the target
ResourceMatches ==
    {i \in 1..Len(all_plugs) :
        /\ Has(all_plugs[i].value, "resourceInfos")
        /\ Some(all_plugs[i].value["resourceInfos"]["deviceSerial"]) = target_serial}

\* every record carries both serial-bearing groups
BothGroups ==
    \A i \in 1..Len(all_plugs) :
        HasDeviceSerial(all_plugs[i].value) /\ Has(all_plugs[i].value, "resourceInfos")

\* C7 as stated, for records that carry both groups: get_plug returns the first
\* record whose resourceInfos serial is the target (a string), and raises the
\* not-found error iff no record's resourceInfos serial is the target.
C7_FindByResourceSerial ==
    (found # NotCalled /\ target_serial # None /\ BothGroups) =>
        /\ ResourceMatches # {} =>
                found = Returns(all_plugs[Min(ResourceMatches)].value)
        /\ found.exc = "Exception" <=> ResourceMatches = {}

\* C7 amended: get_plug compares the deviceInfos serial. It returns the first
\* record whose deviceInfos serial is the target, raises KeyError when a record
\* without a deviceInfos serial comes before any match, and raises the
\* not-found error iff every record has a deviceInfos serial and none is the
\* target. A serial parsed from a record finds that record when the record's
\* deviceInfos serial equals it and no earlier record matches or lacks one.
C7_FindByDeviceSerial ==
    found # NotCalled =>
        /\ (DeviceMatches # {}
             /\ \A k \in DeviceKeyless : k > Min(DeviceMatches)) =>
                found = Returns(all_plugs[Min(DeviceMatches)].value)
        /\ (DeviceKeyless # {}
             /\ \A m \in DeviceMatches : m > Min(DeviceKeyless)) =>
                found = Raises("KeyError")
        /\ found = Raises("Exception") <=>
                (DeviceMatches = {} /\ DeviceKeyless = {})
        /\ \A i \in 1..Len(all_plugs) :
                (/\ parse_plug_data(all_plugs[i].value).exc = "None"
                 /\ target_serial # None
                 /\ parse_plug_data(all_plugs[i].value).val[2] = target_serial
                 /\ i \in DeviceMatches
                 /\ \A j \in 1..(i - 1) :
                        j \notin DeviceMatches \cup DeviceKeyless) =>
                    found = Returns(all_plugs[i].value)

\* two different records carry the target in deviceInfos and the first of them
\* was returned
C7_Witness ==
    /\ found.exc = "None"
    /\ Cardinality(DeviceMatches) = 2
    /\ all_plugs[1].value # all_plugs[2].value
    /\ found.val = all_plugs[1].value
    /\ ResourceMatches = {}

-----------------------------------------------------------------------------
(* The client (pyezvizapi.client.EzvizClient), an opaque collaborator: its     *)
(* calls are recorded, their answers are inputs, and they do not raise.        *)

EzvizClient(username, password) == [username |-> username, password |-> password]

LoginCall == [method |-> "login"]
GetDeviceInfosCall == [method |-> "get_device_infos"]
SwitchStatusCall(serial, type, enable) ==
    [method |-> "switch_status", serial |-> serial, type |-> type, enable |-> enable]

\* Python truthiness of a string ("" stands for every falsy value)
Truthy(s) == s # ""

Usernames == {"", "user"}
Passwords == {"", "secret"}
Tokens == {"", "token"}

-----------------------------------------------------------------------------
(* EZPlug *)

EZPlug(name, serial, state, client) ==
    [_name |-> name, _serial |-> serial, _client |-> client, _state |-> state]

is_on(self) == self._state = Some(1)

\* the client calls set_plug_state issues
set_plug_state(client, target_serial_, state) ==
    <<SwitchStatusCall(target_serial_, SwitchType, state)>>

turn_on_BugAlwaysSends(self) == set_plug_state(self._client, self._serial, 1)

\* the client calls turn_on issues; the object is not assigned to
turn_on(self) ==
    IF ~is_on(self) THEN set_plug_state(self._client, self._serial, 1) ELSE <<>>

turn_off(self) ==
    IF is_on(self) THEN set_plug_state(self._client, self._serial, 0) ELSE <<>>

assign_plug_data_BugAssignsSerial(self, data) ==
    IF data.exc # "None"
    THEN self
    ELSE [self EXCEPT !._name = data.val[1], !._serial = data.val[2],
                      !._state = data.val[3]]

\* lines 175-177 on the outcome of get_plug_data: an exception propagates
\* before any assignment
assign_plug_data(self, data) ==
    IF data.exc # "None"
    THEN self
    ELSE [self EXCEPT !._name = data.val[1], !._state = data.val[3]]

\* the object after update(), given the mapping get_device_infos answers with
update(self, devs) == assign_plug_data(self, get_plug_data(devs, self._serial))

-----------------------------------------------------------------------------
(* setup_platform *)

SetupResult(exc, calls, added, ents) ==
    [exc |-> exc, calls |-> calls, added |-> added, entities |-> ents]

\* lines 113-125, for plugs that all parse: the three lists, zipped
zip_entities(plugs, client) ==
    LET names == [i \in 1..Len(plugs) |-> parse_plug_data(plugs[i]).val[1]]
        serials == [i \in 1..Len(plugs) |-> parse_plug_data(plugs[i]).val[2]]
        states == [i \in 1..Len(plugs) |-> parse_plug_data(plugs[i]).val[3]]
    IN  [i \in 1..Len(plugs) |-> EZPlug(names[i], serials[i], states[i], client)]

setup_platform_BugNoTokenCheck(username, password, token, devs) ==
    IF ~Truthy(username) \/ ~Truthy(password)
    THEN SetupResult("None", <<>>, FALSE, <<>>)
    ELSE IF \E i \in 1..Len(devs) : parse_plug_data(get_plugs(devs)[i]).exc # "None"
    THEN SetupResult("KeyError", <<LoginCall, GetDeviceInfosCall>>, FALSE, <<>>)
    ELSE SetupResult("None", <<LoginCall, GetDeviceInfosCall>>, TRUE,
                     zip_entities(get_plugs(devs), EzvizClient(username, password)))

setup_platform(username, password, token, devs) ==
    IF ~Truthy(username) \/ ~Truthy(password)
    THEN SetupResult("None", <<>>, FALSE, <<>>)
    ELSE IF ~Truthy(token)
    THEN SetupResult("None", <<LoginCall>>, FALSE, <<>>)
    ELSE IF \E i \in 1..Len(devs) : parse_plug_data(get_plugs(devs)[i]).exc # "None"
    THEN SetupResult("KeyError", <<LoginCall, GetDeviceInfosCall>>, FALSE, <<>>)
    ELSE SetupResult("None", <<LoginCall, GetDeviceInfosCall>>, TRUE,
                     zip_entities(get_plugs(devs), EzvizClient(username, password)))

-----------------------------------------------------------------------------
(* The platform in the host: setup_platform once, then the host's calls on   *)
(* the registered entities, one at a time.                                   *)

OnOffSwitch == {<<[type |-> SwitchType, enable |-> e]>> : e \in {0, 1}}

\* a record has no switch group, the SWITCH group, or the group under both the
\* key parse_plug_data tests and the key it reads
SwitchGroups ==
    {EmptyDict}
    \cup {"SWITCH" :> v : v \in OnOffSwitch}
    \cup {("SWITCH" :> v) @@ ("SWTITCH" :> v) : v \in OnOffSwitch}

\* the records the account's devices answer with: both serial-bearing groups,
\* which may disagree, and any of the switch groups
PlugRecords ==
    {di @@ ri @@ sw :
        di \in {"deviceInfos" :> v : v \in DeviceInfosVals},
        ri \in {"resourceInfos" :> [resourceName |-> "Plug A", deviceSerial |-> "S1"],
                "resourceInfos" :> [resourceName |-> "Plug B", deviceSerial |-> "S2"]},
        sw \in SwitchGroups}

\* the mappings get_device_infos may answer with
DeviceAnswers == {DeviceInfos(recs) : recs \in SeqsUpTo(PlugRecords, MaxDevices)}

\* what get_plug may return or raise for a serial, over all those mappings
GetPlugOutcomes ==
    [s \in OptSerials |-> {get_plug(devs, s) : devs \in DeviceAnswers}]

Call(op, idx, exc, calls, added, token, devs, rec) ==
    [op |-> op, idx |-> idx, exc |-> exc, calls |-> calls, added |-> added,
     token |-> token, devs |-> devs, plug |-> rec]

Init ==
    /\ entities = <<>>
    /\ last = Call("none", 0, "None", <<>>, FALSE, "", <<>>, EmptyDict)
    /\ plug = EmptyDict
    /\ parsed = NotCalled
    /\ all_plugs = <<>>
    /\ target_serial = None
    /\ found = NotCalled

Setup ==
    /\ last.op = "none"
    /\ \E username \in Usernames, password \in Passwords, token \in Tokens,
          devs \in DeviceAnswers :
            /\ entities' = setup_platform(username, password, token, devs).entities
            /\ last' = Call("setup_platform", 0,
                            setup_platform(username, password, token, devs).exc,
                            setup_platform(username, password, token, devs).calls,
                            setup_platform(username, password, token, devs).added,
                            token, devs, EmptyDict)
    /\ UNCHANGED <<plug, parsed, all_plugs, target_serial, found>>

TurnOn ==
    /\ \E i \in 1..Len(entities) :
            last' = Call("turn_on", i, "None", turn_on(entities[i]), FALSE, "",
                         <<>>, EmptyDict)
    /\ UNCHANGED <<entities, plug, parsed, all_plugs, target_serial, found>>

TurnOff_BugOptimistic ==
    /\ \E i \in 1..Len(entities) :
            /\ last' = Call("turn_off", i, "None", turn_off(entities[i]), FALSE, "",
                            <<>>, EmptyDict)
            /\ entities' = [entities EXCEPT ![i]._state = Some(0)]
    /\ UNCHANGED <<plug, parsed, all_plugs, target_serial, found>>

TurnOff ==
    /\ \E i \in 1..Len(entities) :
            last' = Call("turn_off", i, "None", turn_off(entities[i]), FALSE, "",
                         <<>>, EmptyDict)
    /\ UNCHANGED <<entities, plug, parsed, all_plugs, target_serial, found>>

Update ==
    /\ \E i \in 1..Len(entities) :
        \E plug_ \in GetPlugOutcomes[entities[i]._serial] :
            /\ entities' = [entities EXCEPT
                                ![i] = assign_plug_data(@, parse_found(plug_))]
            /\ last' = Call("update", i, parse_found(plug_).exc,
                            <<GetDeviceInfosCall>>, FALSE, "", <<>>, plug_.val)
    /\ UNCHANGED <<plug, parsed, all_plugs, target_serial, found>>

Next == Setup \/ TurnOn \/ TurnOff \/ Update

Spec == Init /\ [][Next]_vars

-----------------------------------------------------------------------------
(* Claims about setup_platform *)

CountCalls(calls, c) == Cardinality({k \in 1..Len(calls) : calls[k] = c})

AfterLogin == last.op = "setup_platform" /\ CountCalls(last.calls, LoginCall) > 0

\* C1: whenever login returns a falsy token, setup_platform registers no entity,
\* never calls get_device_infos, and has called login exactly once.
C1_LoginFailureRegistersNothing ==
    (AfterLogin /\ ~Truthy(last.token)) =>
        /\ entities = <<>>
        /\ ~last.added
        /\ CountCalls(last.calls, GetDeviceInfosCall) = 0
        /\ CountCalls(last.calls, LoginCall) = 1
        /\ last.exc = "None"

\* login was called and answered with a falsy token, with devices in the account
C1_Witness ==
    /\ AfterLogin
    /\ ~Truthy(last.token)
    /\ Len(last.devs) = MaxDevices

\* C2: when login succeeds and get_device_infos answers with N records,
\* add_entities receives exactly N entities, the i-th carrying the
\* resourceInfos name and serial of the i-th record.
C2_OneEntityPerRecord ==
    (AfterLogin /\ Truthy(last.token)) =>
        /\ last.added
        /\ Len(entities) = Len(last.devs)
        /\ \A i \in 1..Len(last.devs) :
                /\ entities[i]._name =
                    Some(last.devs[i].value["resourceInfos"]["resourceName"])
                /\ entities[i]._serial =
                    Some(last.devs[i].value["resourceInfos"]["deviceSerial"])

\* C9: when login succeeds and one record of several makes parse_plug_data
\* raise, add_entities is still called, with an entity for every other record.
ParseFails(devs) ==
    {i \in 1..Len(devs) : parse_plug_data(devs[i].value).exc # "None"}

C9_ParseFailureKeepsBatch ==
    (AfterLogin /\ Truthy(last.token) /\ Len(last.devs) > 1
        /\ Cardinality(ParseFails(last.devs)) = 1) =>
        /\ last.added
        /\ Len(entities) >= Len(last.devs) - 1
        /\ \A i \in (1..Len(last.devs)) \ ParseFails(last.devs) :
                \E j \in 1..Len(entities) :
                    entities[j]._serial =
                        parse_plug_data(last.devs[i].value).val[2]

-----------------------------------------------------------------------------
(* Claims about EZPlug *)

\* C3: turn_on issues no client call when the cached state is 1 and exactly
\* one switch_status(serial, 14, 1) when it is 0; turn_off issues exactly one
\* switch_status(serial, 14, 0) when the cached state is 1 and no call when it
\* is 0 or None.
C3_CommandOnlyOnChange ==
    [][\A i \in 1..Len(entities) :
        /\ (last'.op = "turn_on" /\ last'.idx = i) =>
            /\ entities[i]._state = Some(1) => last'.calls = <<>>
            /\ entities[i]._state = Some(0) =>
                last'.calls = <<SwitchStatusCall(entities[i]._serial, 14, 1)>>
        /\ (last'.op = "turn_off" /\ last'.idx = i) =>
            /\ entities[i]._state = Some(1) =>
                last'.calls = <<SwitchStatusCall(entities[i]._serial, 14, 0)>>
            /\ entities[i]._state \in {Some(0), None} => last'.calls = <<>>
      ]_vars

\* turn_on has sent its one command for a plug cached as off (state 0)
C3_Witness ==
    /\ last.op = "turn_on"
    /\ entities[last.idx]._state = Some(0)
    /\ Len(last.calls) = 1

\* C4: turn_on and turn_off assign to nothing: every entity's state, name,
\* serial and client are the same after the command as before, and is_on of an
\* entity changes only in a step that is an update.
C4_CommandsKeepCache ==
    [][/\ last'.op \in {"turn_on", "turn_off"} => entities' = entities
       /\ \A i \in 1..Len(entities) :
            (Len(entities') = Len(entities)
                /\ is_on(entities'[i]) # is_on(entities[i])) =>
                    (last'.op = "update" /\ last'.idx = i)
      ]_vars

\* turn_off has sent its command and is_on still reads true
C4_Witness ==
    /\ last.op = "turn_off"
    /\ Len(last.calls) = 1
    /\ is_on(entities[last.idx])

\* C8: an update that returns has assigned the name and state parsed from the
\* record get_plug found for the entity's serial, and nothing else; no call
\* after setup_platform changes an entity's serial or client, or the number of
\* entities.
C8_UpdateOverwritesNameAndState ==
    [][/\ (last'.op = "update" /\ last'.exc = "None") =>
            /\ HasDeviceSerial(last'.plug)
            /\ Some(last'.plug["deviceInfos"]["deviceSerial"])
                    = entities[last'.idx]._serial
            /\ entities' = [entities EXCEPT
                    ![last'.idx]._name = parse_plug_data(last'.plug).val[1],
                    ![last'.idx]._state = parse_plug_data(last'.plug).val[3]]
       /\ last.op # "none" =>
            /\ Len(entities') = Len(entities)
            /\ \A i \in 1..Len(entities) :
                /\ entities'[i]._serial = entities[i]._serial
                /\ entities'[i]._client = entities[i]._client
      ]_vars

\* an update returned for a record whose resourceInfos serial is not the
\* entity's serial, and the entity now shows that record's name and state
C8_Witness ==
    /\ last.op = "update"
    /\ last.exc = "None"
    /\ parse_plug_data(last.plug).val[2] # entities[last.idx]._serial
    /\ entities[last.idx]._name = parse_plug_data(last.plug).val[1]
    /\ entities[last.idx]._state = Some(1)

\* the record found for the entity reports its type-14 switch as e
Reports(rec, e) ==
    Has(rec, "SWITCH") /\ switch_states(rec["SWITCH"]) = <<e>>

\* C10: the update that follows a command reconciles the cache: after turn_on
\* was sent for a plug cached as off and the device's record reports enable = 1,
\* update returns and is_on is true; after turn_off was sent and the record
\* reports enable = 0, update returns and is_on is false.
C10_UpdateReconciles ==
    [][\A i \in 1..Len(entities) :
        /\ (/\ last.op = "turn_on" /\ last.idx = i /\ last.calls # <<>>
            /\ last'.op = "update" /\ last'.idx = i
            /\ Reports(last'.plug, 1)) =>
                (last'.exc = "None" /\ is_on(entities'[i]))
        /\ (/\ last.op = "turn_off" /\ last.idx = i /\ last.calls # <<>>
            /\ last'.op = "update" /\ last'.idx = i
            /\ Reports(last'.plug, 0)) =>
                (last'.exc = "None" /\ ~is_on(entities'[i]))
      ]_vars

====
